---------------------------- MODULE Spec2Model ----------------------------
(***************************************************************************)
(* Model of the response-parsing logic of src/app.py: the two operations   *)
(* StartupIdeaGenerator.generate_startup_ideas and .validate_startup_idea, *)
(* the upstream call call_openrouter_api they consume, and the place in    *)
(* main() where their results are stored in st.session_state.              *)
(*                                                                         *)
(* Text is a sequence of one-character strings.  The Python built-ins the  *)
(* code uses (str.strip, startswith, endswith, slicing, find, rfind, in,   *)
(* json.loads) are operators that compute what the built-in computes on    *)
(* texts over the alphabet Chars.                                          *)
(***************************************************************************)
EXTENDS Integers, Sequences, FiniteSets, TLC

(***************************************************************************)
(* Characters.                                                             *)
(***************************************************************************)
Quote == "\""
\* The backtick: a TLA+ string cannot hold the character itself.
Tick == "BACKTICK"
NL == "\n"
SP == " "
FF == "\f"

\* str.strip() with no argument removes every character str.isspace() holds
\* of; these are the ones of the alphabet.  The form feed is one that
\* json.loads does not take as whitespace.
PyWhitespace == {SP, NL, "\t", "\r", FF}

\* json.decoder.WHITESPACE: " \t\n\r".
JsonWhitespace == {SP, NL, "\t", "\r"}

\* Characters below U+0020: json.loads (strict) rejects them inside a string.
ControlChars == {NL, "\t", "\r", FF}

Digits == {"0", "1", "2", "3", "4", "5", "6", "7", "8", "9"}

\* The alphabet of the texts the model draws.  It has no backslash, no ".",
\* "E", "+"; "e" and the letters of the second and third lines occur in the
\* texts only inside a string (a field name), so no text holds an escape, a
\* fraction, an exponent or a literal other than null, and the decoder below
\* covers every JSON construct the texts can hold.
Chars ==
  {Tick, "j", "s", "o", "n", "u", "l", "a", "b", "x", "i", "d", "e", SP, NL, FF,
   "{", "}", "[", "]", Quote, ":", ",", "0", "1", "2", "-",
   "m", "p", "t", "r", "c", "v", "g", "k", "f", "y", "w", "h", "z", "_", "3"}

(***************************************************************************)
(* Python string built-ins.                                                *)
(***************************************************************************)
SetMin(S) == CHOOSE i \in S : \A j \in S : i <= j

SetMax(S) == CHOOSE i \in S : (i + 1) \notin S /\ \A j \in S : j <= i

\* s.strip()
Strip(s) ==
  LET keep == {i \in 1..Len(s) : s[i] \notin PyWhitespace}
  IN  IF keep = {} THEN <<>> ELSE SubSeq(s, SetMin(keep), SetMax(keep))

\* s.startswith(p)
StartsWith(s, p) == Len(s) >= Len(p) /\ SubSeq(s, 1, Len(p)) = p

\* s.endswith(p)
EndsWith(s, p) == Len(s) >= Len(p) /\ SubSeq(s, Len(s) - Len(p) + 1, Len(s)) = p

\* s[n:] for n >= 0
DropFirst(s, n) == SubSeq(s, n + 1, Len(s))

\* s[:-n] for n > 0
DropLast(s, n) == SubSeq(s, 1, Len(s) - n)

\* c in s, for a one-character c
Contains(s, c) == \E i \in 1..Len(s) : s[i] = c

\* s.find(c), 0-based; -1 when c is not in s
Find(s, c) ==
  LET at == {i \in 1..Len(s) : s[i] = c}
  IN  IF at = {} THEN -1 ELSE SetMin(at) - 1

\* s.rfind(c), 0-based; -1 when c is not in s
RFind(s, c) ==
  LET at == {i \in 1..Len(s) : s[i] = c}
  IN  IF at = {} THEN -1 ELSE SetMax(at) - 1

\* s[a:b] for 0 <= a and 0 <= b <= len(s); empty when b <= a
PySlice(s, a, b) == SubSeq(s, a + 1, b)

(***************************************************************************)
(* Python values: what json.loads returns and what the operations return.  *)
(* Every value is a record of the same shape, so any two can be compared.  *)
(***************************************************************************)
PyValue(k, a, kids, members) ==
  [kind |-> k, atom |-> a, kids |-> kids, members |-> members]

PyNone == PyValue("NoneType", <<>>, <<>>, {})

PyInt(digits) == PyValue("int", digits, <<>>, {})

PyStr(chars) == PyValue("str", chars, <<>>, {})

PyList(items) == PyValue("list", <<>>, items, {})

\* A dict built from key/value pairs in order: a later pair replaces an
\* earlier one with the same key, and equality ignores the order.
PyDict(pairs) ==
  PyValue("dict", <<>>, <<>>,
          {pairs[i] : i \in {i \in 1..Len(pairs) :
                               \A j \in (i + 1)..Len(pairs) : pairs[j][1] # pairs[i][1]}})

\* bool(v): None, 0, "", [] and {} are falsy.
Truthy(v) ==
  CASE v.kind = "NoneType" -> FALSE
    [] v.kind = "int" -> v.atom # <<"0">>
    [] v.kind = "str" -> v.atom # <<>>
    [] v.kind = "list" -> v.kids # <<>>
    [] v.kind = "dict" -> v.members # {}
    [] OTHER -> TRUE

(***************************************************************************)
(* json.loads on a text over Chars.                                        *)
(***************************************************************************)
ParseFail == [ok |-> FALSE, val |-> PyNone, pos |-> 0]

ParseOk(v, next) == [ok |-> TRUE, val |-> v, pos |-> next]

\* WHITESPACE.match(s, i).end(): the first index >= i not holding whitespace.
SkipWs(s, i) ==
  LET rest == {j \in i..Len(s) : s[j] \notin JsonWhitespace}
  IN  IF rest = {} THEN (IF i > Len(s) THEN i ELSE Len(s) + 1) ELSE SetMin(rest)

CharAt(s, i) == IF i >= 1 /\ i <= Len(s) THEN s[i] ELSE ""

\* scanstring(s, i + 1) where s[i] opens a string: up to the closing quote; a control
\* character inside, or no closing quote, is a decode error.
ScanString(s, i) ==
  LET stop == {j \in (i + 1)..Len(s) : s[j] = Quote \/ s[j] \in ControlChars}
  IN  IF stop = {} THEN ParseFail
      ELSE LET j == SetMin(stop)
           IN  IF s[j] = Quote THEN ParseOk(PyStr(SubSeq(s, i + 1, j - 1)), j + 1)
               ELSE ParseFail

\* NUMBER_RE at i: -?(0|[1-9][0-9]*); the integer it denotes (-0 is 0).
ScanNumber(s, i) ==
  LET neg == CharAt(s, i) = "-"
      d == IF neg THEN i + 1 ELSE i
  IN  IF CharAt(s, d) \notin Digits THEN ParseFail
      ELSE IF s[d] = "0" THEN ParseOk(PyInt(<<"0">>), d + 1)
      ELSE LET nondigit == {j \in d..Len(s) : s[j] \notin Digits}
               last == IF nondigit = {} THEN Len(s) ELSE SetMin(nondigit) - 1
           IN  ParseOk(PyInt((IF neg THEN <<"-">> ELSE <<>>) \o SubSeq(s, d, last)), last + 1)

RECURSIVE ParseValue(_, _)
RECURSIVE ParseMembers(_, _, _)
RECURSIVE ParseItems(_, _, _)

\* scan_once(s, i): the value that starts exactly at i.
ParseValue(s, i) ==
  LET c == CharAt(s, i)
  IN  CASE c = Quote -> ScanString(s, i)
        [] c = "{" ->
             LET j == SkipWs(s, i + 1)
             IN  IF CharAt(s, j) = "}" THEN ParseOk(PyDict(<<>>), j + 1)
                 ELSE ParseMembers(s, j, <<>>)
        [] c = "[" ->
             LET j == SkipWs(s, i + 1)
             IN  IF CharAt(s, j) = "]" THEN ParseOk(PyList(<<>>), j + 1)
                 ELSE ParseItems(s, j, <<>>)
        [] c = "n" ->
             IF i + 3 <= Len(s) /\ SubSeq(s, i, i + 3) = <<"n", "u", "l", "l">>
             THEN ParseOk(PyNone, i + 4) ELSE ParseFail
        [] c = "-" \/ c \in Digits -> ScanNumber(s, i)
        [] OTHER -> ParseFail

\* JSONObject's loop, at the opening quote of a key.
ParseMembers(s, i, acc) ==
  IF CharAt(s, i) # Quote THEN ParseFail
  ELSE LET key == ScanString(s, i)
       IN  IF ~key.ok THEN ParseFail
           ELSE LET colon == SkipWs(s, key.pos)
                IN  IF CharAt(s, colon) # ":" THEN ParseFail
                    ELSE LET v == ParseValue(s, SkipWs(s, colon + 1))
                         IN  IF ~v.ok THEN ParseFail
                             ELSE LET sep == SkipWs(s, v.pos)
                                      pairs == Append(acc, <<key.val.atom, v.val>>)
                                  IN  CASE CharAt(s, sep) = "}" -> ParseOk(PyDict(pairs), sep + 1)
                                        [] CharAt(s, sep) = "," ->
                                             ParseMembers(s, SkipWs(s, sep + 1), pairs)
                                        [] OTHER -> ParseFail

\* JSONArray's loop, at the start of an item.
ParseItems(s, i, acc) ==
  LET v == ParseValue(s, i)
  IN  IF ~v.ok THEN ParseFail
      ELSE LET sep == SkipWs(s, v.pos)
               items == Append(acc, v.val)
           IN  CASE CharAt(s, sep) = "]" -> ParseOk(PyList(items), sep + 1)
                 [] CharAt(s, sep) = "," -> ParseItems(s, SkipWs(s, sep + 1), items)
                 [] OTHER -> ParseFail

\* json.loads(s): one value, whitespace around it, nothing else.
\* ok = FALSE stands for json.JSONDecodeError.
JsonLoads(s) ==
  LET r == ParseValue(s, SkipWs(s, 1))
  IN  IF r.ok /\ SkipWs(s, r.pos) = Len(s) + 1
      THEN [ok |-> TRUE, val |-> r.val]
      ELSE [ok |-> FALSE, val |-> PyNone]

(***************************************************************************)
(* The parsing block, once per copy.                                       *)
(***************************************************************************)
FenceJson == <<Tick, Tick, Tick, "j", "s", "o", "n">>

Fence == <<Tick, Tick, Tick>>

\* GenFencePass1 taking a bare fence for an opening marker too.
GenFencePass1AnyOpener(c) ==
  LET a == IF StartsWith(c, FenceJson) THEN DropFirst(c, 7)
           ELSE IF StartsWith(c, Fence) THEN DropFirst(c, 3) ELSE c
      b == IF EndsWith(a, Fence) THEN DropLast(a, 3) ELSE a
  IN  Strip(b)

\* generate_startup_ideas, lines 196-200
GenFencePass1(c) ==
  LET a == IF StartsWith(c, FenceJson) THEN DropFirst(c, 7) ELSE c
      b == IF EndsWith(a, Fence) THEN DropLast(a, 3) ELSE a
  IN  Strip(b)

\* GenFencePass2 without the closing re-trim of line 207.
GenFencePass2NoTrim(c) ==
  LET a == IF StartsWith(c, Fence) THEN DropFirst(c, 3) ELSE c
  IN  IF EndsWith(a, Fence) THEN DropLast(a, 3) ELSE a

\* generate_startup_ideas, lines 203-207
GenFencePass2(c) ==
  LET a == IF StartsWith(c, Fence) THEN DropFirst(c, 3) ELSE c
      b == IF EndsWith(a, Fence) THEN DropLast(a, 3) ELSE a
  IN  Strip(b)

\* GenBraceSlice ending the span at the first closing brace (find for rfind).
GenBraceSliceFirstClose(c) ==
  IF Contains(c, "{") /\ Contains(c, "}")
  THEN PySlice(c, Find(c, "{"), Find(c, "}") + 1)
  ELSE c

\* generate_startup_ideas, lines 210-213
GenBraceSlice(c) ==
  IF Contains(c, "{") /\ Contains(c, "}")
  THEN PySlice(c, Find(c, "{"), RFind(c, "}") + 1)
  ELSE c

\* ValFencePass1 dropping six characters of the opening marker, not seven.
ValFencePass1OffByOne(c) ==
  LET a == IF StartsWith(c, FenceJson) THEN DropFirst(c, 6) ELSE c
      b == IF EndsWith(a, Fence) THEN DropLast(a, 3) ELSE a
  IN  Strip(b)

\* validate_startup_idea, lines 279-283
ValFencePass1(c) ==
  LET a == IF StartsWith(c, FenceJson) THEN DropFirst(c, 7) ELSE c
      b == IF EndsWith(a, Fence) THEN DropLast(a, 3) ELSE a
  IN  Strip(b)

\* validate_startup_idea, lines 286-290
ValFencePass2(c) ==
  LET a == IF StartsWith(c, Fence) THEN DropFirst(c, 3) ELSE c
      b == IF EndsWith(a, Fence) THEN DropLast(a, 3) ELSE a
  IN  Strip(b)

\* ValBraceSlice ending the span before the last closing brace (no "+ 1").
ValBraceSliceExclusive(c) ==
  IF Contains(c, "{") /\ Contains(c, "}")
  THEN PySlice(c, Find(c, "{"), RFind(c, "}"))
  ELSE c

\* ValBraceSlice with the brace search left out.
ValBraceSliceOmitted(c) == c

\* validate_startup_idea, lines 293-296
ValBraceSlice(c) ==
  IF Contains(c, "{") /\ Contains(c, "}")
  THEN PySlice(c, Find(c, "{"), RFind(c, "}") + 1)
  ELSE c

Ops == {"generate", "validate"}

FencePass1(o, c) == IF o = "generate" THEN GenFencePass1(c) ELSE ValFencePass1(c)

FencePass2(o, c) == IF o = "generate" THEN GenFencePass2(c) ELSE ValFencePass2(c)

BraceSlice(o, c) == IF o = "generate" THEN GenBraceSlice(c) ELSE ValBraceSlice(c)

\* The fence-stripping normalisation: trim, first pass, second pass
\* (lines 195-207 and 278-290).
FenceStrip(o, t) == FencePass2(o, FencePass1(o, Strip(t)))

\* "if response is not None:" in place of "if response:".
EntersParseBlockNotNone(r) == r.kind # "NoneType"

\* The parsing block with no guard around it.
EntersParseBlockAlways(r) == TRUE

\* The condition of "if response:" (lines 192 and 275).
EntersParseBlock(r) == Truthy(r)

\* The number of characters of the raw response shown on a decode failure.
SnippetLimit == 500

\* response[:500] + "..." if len(response) > 500 else response
Snippet(r) ==
  IF Len(r) > SnippetLimit THEN SubSeq(r, 1, SnippetLimit) \o <<".", ".", ".">> ELSE r

\* Which except clause of the try statement takes an exception raised in the
\* block: json.JSONDecodeError first, then Exception; anything else leaves
\* the function.
ExceptionClasses == {"JSONDecodeError", "AttributeError"}

\* The try statement without its "except Exception" clause.
HandlerJsonOnly(e) ==
  IF e = "JSONDecodeError" THEN "except JSONDecodeError" ELSE "propagate"

Handler(e) ==
  CASE e = "JSONDecodeError" -> "except JSONDecodeError"
    [] e \in ExceptionClasses -> "except Exception"
    [] OTHER -> "propagate"

(***************************************************************************)
(* The completions the upstream model may return (the content read at line *)
(* 146), as a text inside a wrapping.                                      *)
(***************************************************************************)
Q(k) == <<Quote>> \o k \o <<Quote>>

Member(k, v) == Q(k) \o <<":">> \o v

Braces(body) == <<"{">> \o body \o <<"}">>

Brackets(body) == <<"[">> \o body \o <<"]">>

Null == <<"n", "u", "l", "l">>

KeyA == <<"a">>

KeyB == <<"b">>

KeyIdeas == <<"i", "d", "e", "a", "s">>

\* The fields main() reads from an idea (lines 449-460) and from a validation
\* report (lines 501-559).
KeyName == <<"n", "a", "m", "e">>

KeyDescription == <<"d", "e", "s", "c", "r", "i", "p", "t", "i", "o", "n">>

KeyValueProposition == <<"v", "a", "l", "u", "e", "_", "p", "r", "o", "p", "o", "s", "i", "t", "i", "o", "n">>

KeyMarketSize == <<"m", "a", "r", "k", "e", "t", "_", "s", "i", "z", "e">>

KeyRevenueModel == <<"r", "e", "v", "e", "n", "u", "e", "_", "m", "o", "d", "e", "l">>

KeyCompetitiveAdvantage == <<"c", "o", "m", "p", "e", "t", "i", "t", "i", "v", "e", "_", "a", "d", "v", "a", "n", "t", "a", "g", "e">>

KeyKeyFeatures == <<"k", "e", "y", "_", "f", "e", "a", "t", "u", "r", "e", "s">>

KeyMarketOpportunityScore == <<"m", "a", "r", "k", "e", "t", "_", "o", "p", "p", "o", "r", "t", "u", "n", "i", "t", "y", "_", "s", "c", "o", "r", "e">>

KeyCompetitionLevel == <<"c", "o", "m", "p", "e", "t", "i", "t", "i", "o", "n", "_", "l", "e", "v", "e", "l">>

KeySuccessProbability == <<"s", "u", "c", "c", "e", "s", "s", "_", "p", "r", "o", "b", "a", "b", "i", "l", "i", "t", "y">>

KeyMarketTrends == <<"m", "a", "r", "k", "e", "t", "_", "t", "r", "e", "n", "d", "s">>

KeyGoToMarket == <<"g", "o", "_", "t", "o", "_", "m", "a", "r", "k", "e", "t">>

KeyRiskAssessment == <<"r", "i", "s", "k", "_", "a", "s", "s", "e", "s", "s", "m", "e", "n", "t">>

KeySwot == <<"s", "w", "o", "t">>

KeyStrengths == <<"s", "t", "r", "e", "n", "g", "t", "h", "s">>

KeyOpportunities == <<"o", "p", "p", "o", "r", "t", "u", "n", "i", "t", "i", "e", "s">>

KeyWeaknesses == <<"w", "e", "a", "k", "n", "e", "s", "s", "e", "s">>

KeyThreats == <<"t", "h", "r", "e", "a", "t", "s">>

KeyFinancialProjections == <<"f", "i", "n", "a", "n", "c", "i", "a", "l", "_", "p", "r", "o", "j", "e", "c", "t", "i", "o", "n", "s">>

KeyYear1 == <<"y", "e", "a", "r", "_", "1">>

KeyYear2 == <<"y", "e", "a", "r", "_", "2">>

KeyYear3 == <<"y", "e", "a", "r", "_", "3">>

KeyKeyMetrics == <<"k", "e", "y", "_", "m", "e", "t", "r", "i", "c", "s">>

KeyRecommendations == <<"r", "e", "c", "o", "m", "m", "e", "n", "d", "a", "t", "i", "o", "n", "s">>

IdeaFields ==
  {KeyName, KeyDescription, KeyValueProposition, KeyMarketSize, KeyRevenueModel,
   KeyCompetitiveAdvantage, KeyKeyFeatures}

SwotFields == {KeyStrengths, KeyOpportunities, KeyWeaknesses, KeyThreats}

YearFields == {KeyYear1, KeyYear2, KeyYear3}

ValidationFields ==
  {KeyMarketOpportunityScore, KeyCompetitionLevel, KeySuccessProbability, KeyMarketTrends,
   KeyGoToMarket, KeyRiskAssessment, KeySwot, KeyFinancialProjections, KeyKeyMetrics,
   KeyRecommendations}

SmallObject == Braces(Member(KeyA, <<"1">>))

NestedObject == Braces(Member(KeyA, Braces(Member(KeyB, Null))))

IdeasObject == Braces(Member(KeyIdeas, Brackets(Braces(Member(KeyA, Q(<<"x">>))))))

SpacedObject ==
  <<"{", NL>> \o Q(KeyA) \o <<SP, ":", SP, "1", SP, ",", SP>> \o Member(KeyB, <<"-", "1", "0">>) \o <<"}">>

\* A completion with every field main() renders: one idea, and a validation
\* report.
X == Q(<<"x">>)

IdeasReport ==
  Braces(Member(KeyIdeas, Brackets(Braces(
    Member(KeyName, X) \o <<",">> \o Member(KeyDescription, X) \o <<",">> \o
    Member(KeyValueProposition, X) \o <<",">> \o Member(KeyMarketSize, X) \o <<",">> \o
    Member(KeyRevenueModel, X) \o <<",">> \o Member(KeyCompetitiveAdvantage, X) \o <<",">> \o
    Member(KeyKeyFeatures, Brackets(X))))))

ValidationReport ==
  Braces(
    Member(KeyMarketOpportunityScore, <<"1">>) \o <<",">> \o Member(KeyCompetitionLevel, X) \o <<",">> \o
    Member(KeySuccessProbability, <<"2">>) \o <<",">> \o Member(KeyMarketTrends, X) \o <<",">> \o
    Member(KeyGoToMarket, X) \o <<",">> \o Member(KeyRiskAssessment, X) \o <<",">> \o
    Member(KeySwot, Braces(
      Member(KeyStrengths, Brackets(X)) \o <<",">> \o Member(KeyOpportunities, Brackets(<<>>)) \o <<",">> \o
      Member(KeyWeaknesses, Brackets(<<>>)) \o <<",">> \o Member(KeyThreats, Brackets(<<>>)))) \o <<",">> \o
    Member(KeyFinancialProjections, Braces(
      Member(KeyYear1, X) \o <<",">> \o Member(KeyYear2, X) \o <<",">> \o Member(KeyYear3, X))) \o <<",">> \o
    Member(KeyKeyMetrics, Brackets(<<>>)) \o <<",">> \o Member(KeyRecommendations, Brackets(X)))

\* Texts json.loads decodes to a dict.
ObjectTexts ==
  { Braces(<<>>), Braces(<<SP>>), SmallObject, NestedObject, IdeasObject, SpacedObject,
    Braces(Member(KeyA, <<SP>> \o Q(<<"x">>))),
    Braces(Member(KeyA, Brackets(<<"1", ",", "2">>))),
    Braces(Member(KeyA, <<"1">>) \o <<",">> \o Member(KeyA, <<"2">>)),
    Braces(Member(KeyA, Q(<<"}">>))),
    Braces(Member(KeyA, Q(<<"{">>))),
    Braces(Member(KeyA, Q(<<"x", "}", "{">>))),
    Braces(Member(KeyA, Q(Fence))),
    Braces(Member(KeyIdeas, Brackets(<<>>))),
    Braces(Member(KeyIdeas, <<"0">>)),
    <<SP>> \o SmallObject \o <<NL>>,
    <<NL, SP>> \o NestedObject \o <<SP, SP>> }

\* Texts json.loads decodes to something that is not a dict.
NonObjectTexts ==
  { <<"1">>, <<"0">>, <<"-", "2">>, <<"1", "0">>, Null, Q(<<"x">>), Q(<<>>), Q(KeyIdeas),
    Brackets(<<>>), Brackets(<<"1">>), Brackets(<<"1", ",", SP>> \o Null),
    Brackets(Q(KeyIdeas)), Brackets(SmallObject), <<SP, "1", NL>> }

Prefixes(t) == {SubSeq(t, 1, n) : n \in 1..(Len(t) - 1)}

\* Texts json.loads rejects: truncated objects and other malformed text.
MalformedTexts ==
  Prefixes(IdeasObject) \cup Prefixes(NestedObject) \cup Prefixes(SpacedObject) \cup
  { <<>>, <<SP>>, <<NL, FF>>, <<"x">>, <<"}", "{">>, <<"}", SP, "{">>, Braces(<<"1">>),
    Braces(<<>>) \o Braces(<<>>), Braces(<<>>) \o <<SP, "x">>, <<"x", SP>> \o SmallObject,
    Braces(Member(KeyA, <<"1">>) \o <<",">>), Brackets(<<"1", ",">>),
    <<FF>> \o SmallObject, <<FF, "1">>, <<"j", "s", "o", "n">>, <<"0", "1">>, <<"-">>,
    Braces(Q(KeyA) \o <<SP, "1">>), Q(<<"a", NL>>), <<"n", "u", "l">>,
    SmallObject \o <<"}">>, <<"{">> \o SmallObject }

\* A text inside a wrapping: what precedes it and what follows it.
WrapOf(pre, post) == [pre |-> pre, post |-> post]

Plain == WrapOf(<<>>, <<>>)

JsonFenceWrap == WrapOf(FenceJson \o <<NL>>, <<NL>> \o Fence)

BareFenceWrap == WrapOf(Fence \o <<NL>>, <<NL>> \o Fence)

Wrapped(w, t) == w.pre \o t \o w.post

\* Texts that carry fence markers of their own.
FenceTexts ==
  { Fence, FenceJson, <<Tick>>, <<Tick, Tick, Tick, Tick>>, Fence \o Fence,
    Fence \o Fence \o Fence, FenceJson \o Fence, Fence \o <<"1">>, FenceJson \o <<"1">>,
    Fence \o Fence \o <<"1">>, Fence \o Fence \o SmallObject, <<"1">> \o Fence \o Fence \o Fence,
    Fence \o <<NL>> \o Fence \o <<NL>> \o Fence \o <<NL>> \o SmallObject } \cup
  { Wrapped(w, t) : w \in {JsonFenceWrap, BareFenceWrap},
                    t \in {SmallObject, <<"1">>, Brackets(<<"1">>), <<"x">>, <<>>} } \cup
  { Wrapped(w1, Wrapped(w2, t)) : w1 \in {JsonFenceWrap, BareFenceWrap},
                                  w2 \in {JsonFenceWrap, BareFenceWrap},
                                  t \in {SmallObject, <<"1">>} }

ShortTexts == ObjectTexts \cup NonObjectTexts \cup MalformedTexts \cup FenceTexts

\* How far past SnippetLimit the long texts go.
Overshoot == 2

Pad(n) == [i \in 1..n |-> "x"]

LongTexts ==
  { Pad(n) \o tail : n \in (SnippetLimit - 2)..(SnippetLimit + Overshoot),
                     tail \in {<<>>, SmallObject} } \cup
  { Braces(Member(KeyA, Q(Pad(n)))) : n \in {SnippetLimit - 6, SnippetLimit + Overshoot} }

\* Prose around the text: no brace in it, but backticks, whitespace and the
\* word json.
ProseBefore ==
  { <<>>, <<"x", SP>>, <<NL>>, Fence, FenceJson, <<"j", "s", "o", "n", SP>>, <<Tick, FF>>,
    <<"x", ":", NL>> }

ProseAfter ==
  { <<>>, <<NL, "x">>, <<SP>>, Fence, <<NL>> \o Fence \o <<NL>> \o Fence, <<"j", "s", "o", "n">> \o Fence }

ProseWraps == {WrapOf(a, b) : a \in ProseBefore, b \in ProseAfter}

Wraps == {Plain, JsonFenceWrap, BareFenceWrap} \cup ProseWraps

LongWraps == {Plain, WrapOf(<<NL>>, <<SP>>), JsonFenceWrap}

Cases == (ShortTexts \X Wraps) \cup (LongTexts \X LongWraps)

(***************************************************************************)
(* State.  Every invocation (a button press of one session) has its own    *)
(* locals; Procs are the invocations that may run at the same time.        *)
(***************************************************************************)
VARIABLES
  pc,                \* where each invocation stands
  op,                \* which operation it runs
  api_key,           \* whether self.api_key is set
  reply,             \* what the upstream call will do: [status, content]
  text,              \* the text inside the completion
  wrap,              \* the wrapping around it
  response,          \* the local response (lines 190, 273)
  cleaned_response,  \* the local cleaned_response
  exc,               \* the exception raised inside the try block, if any
  outcome,           \* the value the operation returned
  ui,                \* the st.error / st.code / st.info calls made, in order
  ran,               \* the statements of the try block that were executed
  calls,             \* upstream completion calls made by the running operation
  decodes,           \* json.loads attempts made by the running operation
  history,           \* the operations that returned in the session, with their values
  session_state      \* st.session_state of the invocation's session

vars ==
  <<pc, op, api_key, reply, text, wrap, response, cleaned_response, exc, outcome, ui, ran,
    calls, decodes, history, session_state>>

Procs == {1, 2}

\* A key that is not in st.session_state.
Absent == PyValue("absent", <<>>, <<>>, {})

EmptySession == [generated_ideas |-> Absent, validation_results |-> Absent]

Shown(fn, msg, body) == [fn |-> fn, msg |-> msg, body |-> body]

Scenario(key, status, content, t, w) ==
  [api_key |-> key, status |-> status, content |-> content, text |-> t, wrap |-> w]

\* The upstream call's ways to end: no API key, a request error, a response
\* of another shape, a null content, a content that is not a string, and a
\* completion text.
FailingScenarios ==
  { Scenario(FALSE, "ok", PyStr(SmallObject), SmallObject, Plain),
    Scenario(TRUE, "request_error", PyNone, <<>>, Plain),
    Scenario(TRUE, "bad_shape", PyNone, <<>>, Plain),
    Scenario(TRUE, "ok", PyNone, <<>>, Plain),
    Scenario(TRUE, "ok", PyList(<<PyStr(SmallObject)>>), SmallObject, Plain) }

TextScenario(c) == Scenario(TRUE, "ok", PyStr(Wrapped(c[2], c[1])), c[1], c[2])

Scenarios == FailingScenarios \cup {TextScenario(c) : c \in Cases}

\* The cases two concurrent invocations draw from.
ParScenarios ==
  { Scenario(TRUE, "request_error", PyNone, <<>>, Plain),
    Scenario(TRUE, "ok", PyList(<<PyStr(SmallObject)>>), SmallObject, Plain) } \cup
  { TextScenario(c) : c \in {SmallObject, <<"1">>, <<"{", Quote>>, Fence \o Fence \o <<"1">>}
                             \X {Plain, JsonFenceWrap} }

Start(p, o, sc) ==
  /\ pc[p] = "call"
  /\ op[p] = o
  /\ api_key[p] = sc.api_key
  /\ reply[p] = [status |-> sc.status, content |-> sc.content]
  /\ text[p] = sc.text
  /\ wrap[p] = sc.wrap

Off(p) ==
  /\ pc[p] = "off"
  /\ op[p] = "generate"
  /\ api_key[p] = FALSE
  /\ reply[p] = [status |-> "ok", content |-> PyNone]
  /\ text[p] = <<>>
  /\ wrap[p] = Plain

InitLocals ==
  /\ pc \in [Procs -> {"call", "off"}]
  /\ op \in [Procs -> Ops]
  /\ api_key \in [Procs -> BOOLEAN]
  /\ response = [p \in Procs |-> PyNone]
  /\ cleaned_response = [p \in Procs |-> <<>>]
  /\ exc = [p \in Procs |-> "none"]
  /\ outcome = [p \in Procs |-> PyNone]
  /\ ui = [p \in Procs |-> <<>>]
  /\ ran = [p \in Procs |-> {}]
  /\ calls = [p \in Procs |-> 0]
  /\ decodes = [p \in Procs |-> 0]
  /\ history = [p \in Procs |-> <<>>]
  /\ session_state = [p \in Procs |-> EmptySession]

\* One invocation, on any scenario.
Init ==
  /\ InitLocals
  /\ \E o \in Ops, sc \in Scenarios :
       /\ reply = [p \in Procs |-> IF p = 1 THEN [status |-> sc.status, content |-> sc.content]
                                    ELSE [status |-> "ok", content |-> PyNone]]
       /\ text = [p \in Procs |-> IF p = 1 THEN sc.text ELSE <<>>]
       /\ wrap = [p \in Procs |-> IF p = 1 THEN sc.wrap ELSE Plain]
       /\ Start(1, o, sc)
  /\ Off(2)

\* Two invocations at the same time.
InitPar ==
  /\ InitLocals
  /\ \E o1 \in Ops, o2 \in Ops, s1 \in ParScenarios, s2 \in ParScenarios :
       /\ reply = [p \in Procs |-> IF p = 1 THEN [status |-> s1.status, content |-> s1.content]
                                    ELSE [status |-> s2.status, content |-> s2.content]]
       /\ text = [p \in Procs |-> IF p = 1 THEN s1.text ELSE s2.text]
       /\ wrap = [p \in Procs |-> IF p = 1 THEN s1.wrap ELSE s2.wrap]
       /\ Start(1, o1, s1)
       /\ Start(2, o2, s2)

(***************************************************************************)
(* call_openrouter_api (lines 114-152) and the assignment of its result to *)
(* response (lines 190, 273).                                              *)
(***************************************************************************)
ApiResult(key, r) ==
  IF ~key THEN PyNone
  ELSE IF r.status = "ok" THEN r.content
  ELSE PyNone

ApiShown(key, r) ==
  IF ~key THEN <<Shown("error", "OpenRouter API key not found", <<>>),
                 Shown("info", "Setup Instructions", <<>>)>>
  ELSE IF r.status = "request_error" THEN <<Shown("error", "API Error", <<>>)>>
  ELSE IF r.status = "bad_shape" THEN <<Shown("error", "Unexpected error", <<>>)>>
  ELSE <<>>

CallApi(p) ==
  /\ pc[p] = "call"
  /\ response' = [response EXCEPT ![p] = ApiResult(api_key[p], reply[p])]
  /\ ui' = [ui EXCEPT ![p] = @ \o ApiShown(api_key[p], reply[p])]
  /\ calls' = [calls EXCEPT ![p] = @ + 1]
  /\ pc' = [pc EXCEPT ![p] = "check"]
  /\ UNCHANGED <<op, api_key, reply, text, wrap, cleaned_response, exc, outcome, ran,
                 decodes, history, session_state>>

(***************************************************************************)
(* The operation after the call: lines 192-225 and 275-308.                *)
(***************************************************************************)
\* cleaned_response kept in one place shared by the invocations.
StoreCleanedShared(p, v) == [q \in Procs |-> v]

\* The assignment to the local cleaned_response of invocation p.
StoreCleaned(p, v) == [cleaned_response EXCEPT ![p] = v]

\* return v: the operation ends and main() has its value.
Return(p, v) ==
  /\ outcome' = [outcome EXCEPT ![p] = v]
  /\ history' = [history EXCEPT ![p] = Append(@, [op |-> op[p], value |-> v])]
  /\ pc' = [pc EXCEPT ![p] = "returned"]

\* if response: ... return None
CheckResponse(p) ==
  /\ pc[p] = "check"
  /\ \/ /\ EntersParseBlock(response[p])
        /\ pc' = [pc EXCEPT ![p] = "strip"]
        /\ UNCHANGED <<outcome, history>>
     \/ /\ ~EntersParseBlock(response[p])
        /\ Return(p, PyNone)
  /\ UNCHANGED <<op, api_key, reply, text, wrap, response, cleaned_response, exc, ui, ran,
                 calls, decodes, session_state>>

\* cleaned_response = response.strip(); a response that is not a string has
\* no strip and raises AttributeError.
StripResponse(p) ==
  /\ pc[p] = "strip"
  /\ ran' = [ran EXCEPT ![p] = @ \cup {"strip"}]
  /\ \/ /\ response[p].kind = "str"
        /\ cleaned_response' = StoreCleaned(p, Strip(response[p].atom))
        /\ pc' = [pc EXCEPT ![p] = "pass1"]
        /\ UNCHANGED exc
     \/ /\ response[p].kind # "str"
        /\ exc' = [exc EXCEPT ![p] = "AttributeError"]
        /\ pc' = [pc EXCEPT ![p] = "except"]
        /\ UNCHANGED cleaned_response
  /\ UNCHANGED <<op, api_key, reply, text, wrap, response, outcome, ui, calls, decodes,
                 history, session_state>>

CleanStep(p, at, name, next, v) ==
  /\ pc[p] = at
  /\ ran' = [ran EXCEPT ![p] = @ \cup {name}]
  /\ cleaned_response' = StoreCleaned(p, v)
  /\ pc' = [pc EXCEPT ![p] = next]
  /\ UNCHANGED <<op, api_key, reply, text, wrap, response, exc, outcome, ui, calls, decodes,
                 history, session_state>>

FirstPass(p) == CleanStep(p, "pass1", "pass1", "pass2", FencePass1(op[p], cleaned_response[p]))

SecondPass(p) == CleanStep(p, "pass2", "pass2", "slice", FencePass2(op[p], cleaned_response[p]))

SliceBraces(p) == CleanStep(p, "slice", "slice", "decode", BraceSlice(op[p], cleaned_response[p]))

\* return json.loads(cleaned_response)
Decode(p) ==
  /\ pc[p] = "decode"
  /\ ran' = [ran EXCEPT ![p] = @ \cup {"decode"}]
  /\ decodes' = [decodes EXCEPT ![p] = @ + 1]
  /\ LET r == JsonLoads(cleaned_response[p])
     IN  \/ /\ r.ok
            /\ Return(p, r.val)
            /\ UNCHANGED exc
         \/ /\ ~r.ok
            /\ exc' = [exc EXCEPT ![p] = "JSONDecodeError"]
            /\ pc' = [pc EXCEPT ![p] = "except"]
            /\ UNCHANGED <<outcome, history>>
  /\ UNCHANGED <<op, api_key, reply, text, wrap, response, cleaned_response, ui, calls,
                 session_state>>

\* What the JSONDecodeError clause shows (lines 217-220, 300-303): the raw
\* response, cut to SnippetLimit characters.
DecodeErrorShown(o, r) ==
  << Shown("error", IF o = "generate" THEN "Failed to parse AI response"
                    ELSE "Failed to parse validation response", <<>>),
     Shown("error", "Raw response for debugging:", <<>>),
     Shown("code", "", Snippet(r)),
     Shown("info", "Please try again. The AI sometimes returns malformed JSON.", <<>>) >>

\* What the Exception clause shows (lines 223, 306).
OtherErrorShown(o) ==
  << Shown("error", IF o = "generate" THEN "Unexpected error parsing response"
                    ELSE "Unexpected error parsing validation response", <<>>) >>

\* The snippet taken from cleaned_response instead.
DiagnosticTextCleaned(p) == cleaned_response[p]

\* The text the JSONDecodeError clause cuts and shows: the local response,
\* not cleaned_response.
DiagnosticText(p) == response[p].atom

\* The except clauses with a JSONDecodeError clause that asks the upstream
\* model again instead of returning None.
ExceptRetry(p) ==
  /\ pc[p] = "except"
  /\ LET h == Handler(exc[p])
     IN  CASE h = "except JSONDecodeError" ->
                /\ ui' = [ui EXCEPT ![p] = @ \o DecodeErrorShown(op[p], DiagnosticText(p))]
                /\ pc' = [pc EXCEPT ![p] = "call"]
                /\ UNCHANGED <<outcome, history>>
           [] h = "except Exception" ->
                /\ ui' = [ui EXCEPT ![p] = @ \o OtherErrorShown(op[p])]
                /\ Return(p, PyNone)
           [] OTHER ->
                /\ pc' = [pc EXCEPT ![p] = "raised"]
                /\ UNCHANGED <<ui, outcome, history>>
  /\ UNCHANGED <<op, api_key, reply, text, wrap, response, cleaned_response, exc, ran,
                 calls, decodes, session_state>>

\* The except clauses: both return None; an exception no clause takes leaves
\* the function.
Except(p) ==
  /\ pc[p] = "except"
  /\ LET h == Handler(exc[p])
     IN  CASE h = "except JSONDecodeError" ->
                /\ ui' = [ui EXCEPT ![p] = @ \o DecodeErrorShown(op[p], DiagnosticText(p))]
                /\ Return(p, PyNone)
           [] h = "except Exception" ->
                /\ ui' = [ui EXCEPT ![p] = @ \o OtherErrorShown(op[p])]
                /\ Return(p, PyNone)
           [] OTHER ->
                /\ pc' = [pc EXCEPT ![p] = "raised"]
                /\ UNCHANGED <<ui, outcome, history>>
  /\ UNCHANGED <<op, api_key, reply, text, wrap, response, cleaned_response, exc, ran,
                 calls, decodes, session_state>>

(***************************************************************************)
(* main(): what the handler of a button does with the returned value, the  *)
(* assignment to st.session_state and the display after it (lines 440-467, *)
(* 492-560).  The analytics tab (lines 565-567) only reads the key         *)
(* validation_results, after the handlers.                                 *)
(***************************************************************************)
HasKey(v, k) == \E m \in v.members : m[1] = k

Lookup(v, k) == (CHOOSE m \in v.members : m[1] = k)[2]

\* "k in v" for a key k: a dict's keys, a list's items, a substring of a
\* str; an int is not iterable.
KeyIn(k, v) ==
  CASE v.kind = "dict" -> HasKey(v, k)
    [] v.kind = "list" -> \E i \in 1..Len(v.kids) : v.kids[i] = PyStr(k)
    [] v.kind = "str" -> \E i \in 1..(Len(v.atom) - Len(k) + 1) :
                            SubSeq(v.atom, i, i + Len(k) - 1) = k
    [] OTHER -> FALSE

\* v[k] works: v is a dict that has the key k.
HasField(v, k) == v.kind = "dict" /\ HasKey(v, k)

\* "for x in v" works.
Iterable(v) == v.kind \in {"list", "str", "dict"}

\* The body of the loop over the ideas (lines 446-467) runs through for one
\* idea: every field is there and key_features can be iterated.
RendersIdea(idea) ==
  /\ \A f \in IdeaFields : HasField(idea, f)
  /\ Iterable(Lookup(idea, KeyKeyFeatures))

\* for i, idea in enumerate(ideas_data['ideas']) runs through (lines 445-467):
\* over a str or a dict the items are characters or keys, which have no
\* fields.
RendersIdeas(ideas) ==
  CASE ideas.kind = "list" -> \A i \in 1..Len(ideas.kids) : RendersIdea(ideas.kids[i])
    [] ideas.kind = "str" -> ideas.atom = <<>>
    [] ideas.kind = "dict" -> ideas.members = {}
    [] OTHER -> FALSE

\* The display of the validation results (lines 497-560) runs through.
RendersValidation(v) ==
  /\ \A f \in ValidationFields : HasField(v, f)
  /\ \A f \in SwotFields :
       HasField(Lookup(v, KeySwot), f) /\ Iterable(Lookup(Lookup(v, KeySwot), f))
  /\ \A f \in YearFields : HasField(Lookup(v, KeyFinancialProjections), f)
  /\ Iterable(Lookup(v, KeyKeyMetrics))
  /\ Iterable(Lookup(v, KeyRecommendations))

\* if ideas_data and 'ideas' in ideas_data:
\*     st.session_state['generated_ideas'] = ideas_data['ideas']
\*     for i, idea in enumerate(ideas_data['ideas']): ...
\* The test raises TypeError on an int, the subscript on a list or a str;
\* the loop comes after the assignment, and what it raises ends the run
\* with the assignment made.
MainGenerate(p) ==
  LET v == outcome[p]
  IN  IF ~Truthy(v) THEN pc' = [pc EXCEPT ![p] = "done"] /\ UNCHANGED session_state
      ELSE IF v.kind = "int" THEN pc' = [pc EXCEPT ![p] = "main_raised"] /\ UNCHANGED session_state
      ELSE IF ~KeyIn(KeyIdeas, v) THEN pc' = [pc EXCEPT ![p] = "done"] /\ UNCHANGED session_state
      ELSE IF v.kind # "dict" THEN pc' = [pc EXCEPT ![p] = "main_raised"] /\ UNCHANGED session_state
      ELSE /\ session_state' = [session_state EXCEPT ![p].generated_ideas = Lookup(v, KeyIdeas)]
           /\ pc' = [pc EXCEPT ![p] = IF RendersIdeas(Lookup(v, KeyIdeas)) THEN "done"
                                      ELSE "main_raised"]

\* MainValidate without the test of the returned value.
MainValidateUnchecked(p) ==
  LET v == outcome[p]
  IN  /\ session_state' = [session_state EXCEPT ![p].validation_results = v]
      /\ pc' = [pc EXCEPT ![p] = IF RendersValidation(v) THEN "done" ELSE "main_raised"]

\* if validation_data:
\*     st.session_state['validation_results'] = validation_data
\*     ... validation_data['market_opportunity_score'] ...
\* The display comes after the assignment.
MainValidate(p) ==
  LET v == outcome[p]
  IN  IF Truthy(v)
      THEN /\ session_state' = [session_state EXCEPT ![p].validation_results = v]
           /\ pc' = [pc EXCEPT ![p] = IF RendersValidation(v) THEN "done" ELSE "main_raised"]
      ELSE /\ pc' = [pc EXCEPT ![p] = "done"]
           /\ UNCHANGED session_state

MainHandle(p) ==
  /\ pc[p] = "returned"
  /\ IF op[p] = "generate" THEN MainGenerate(p) ELSE MainValidate(p)
  /\ UNCHANGED <<op, api_key, reply, text, wrap, response, cleaned_response, exc, outcome, ui,
                 ran, calls, decodes, history>>

ParseStep(p) ==
  \/ CheckResponse(p)
  \/ StripResponse(p)
  \/ FirstPass(p)
  \/ SecondPass(p)
  \/ SliceBraces(p)
  \/ Decode(p)
  \/ Except(p)

Next == \E p \in Procs : CallApi(p) \/ ParseStep(p) \/ MainHandle(p)

Spec == Init /\ [][Next]_vars

SpecPar == InitPar /\ [][Next]_vars

(***************************************************************************)
(* A session: button presses one after the other, each a new run of the    *)
(* script with the same st.session_state (lines 436-440, 488-492).         *)
(***************************************************************************)
\* How many operations a session runs.
MaxPresses == 3

\* The button pressed and what the upstream model then returns.
SessionCases ==
  ({"generate"} \X
     ({Scenario(TRUE, "request_error", PyNone, <<>>, Plain)} \cup
      {TextScenario(<<t, Plain>>) :
         t \in {<<"{", Quote>>, SmallObject, IdeasObject, Braces(Member(KeyIdeas, Brackets(<<>>))),
                Q(KeyIdeas)}} \cup
      {TextScenario(<<IdeasReport, JsonFenceWrap>>)})) \cup
  ({"validate"} \X
     ({Scenario(TRUE, "ok", PyList(<<PyStr(SmallObject)>>), SmallObject, Plain)} \cup
      {TextScenario(<<t, Plain>>) :
         t \in {<<"{", Quote>>, SmallObject, Brackets(<<"1">>), Braces(<<>>)}} \cup
      {TextScenario(<<ValidationReport, JsonFenceWrap>>)}))

InitSession ==
  /\ InitLocals
  /\ \E c \in SessionCases :
       /\ reply = [p \in Procs |-> IF p = 1 THEN [status |-> c[2].status, content |-> c[2].content]
                                    ELSE [status |-> "ok", content |-> PyNone]]
       /\ text = [p \in Procs |-> IF p = 1 THEN c[2].text ELSE <<>>]
       /\ wrap = [p \in Procs |-> IF p = 1 THEN c[2].wrap ELSE Plain]
       /\ Start(1, c[1], c[2])
  /\ Off(2)

\* A new run of the script: the page and the locals of the last run are gone.
NewRun(p) ==
  /\ response' = [response EXCEPT ![p] = PyNone]
  /\ cleaned_response' = [cleaned_response EXCEPT ![p] = <<>>]
  /\ exc' = [exc EXCEPT ![p] = "none"]
  /\ outcome' = [outcome EXCEPT ![p] = PyNone]
  /\ ran' = [ran EXCEPT ![p] = {}]
  /\ calls' = [calls EXCEPT ![p] = 0]
  /\ decodes' = [decodes EXCEPT ![p] = 0]

\* st.button(...) is true: with a field left empty a warning is shown and
\* nothing is called (lines 437-438, 489-490); otherwise the operation runs.
Press(p) ==
  /\ pc[p] \in {"done", "main_raised", "warned"}
  /\ NewRun(p)
  /\ \/ /\ \E o \in Ops : op' = [op EXCEPT ![p] = o]
        /\ ui' = [ui EXCEPT ![p] = <<Shown("warning", "Please fill in all fields", <<>>)>>]
        /\ pc' = [pc EXCEPT ![p] = "warned"]
        /\ UNCHANGED <<api_key, reply, text, wrap>>
     \/ /\ Len(history[p]) < MaxPresses
        /\ \E c \in SessionCases :
             /\ op' = [op EXCEPT ![p] = c[1]]
             /\ api_key' = [api_key EXCEPT ![p] = c[2].api_key]
             /\ reply' = [reply EXCEPT ![p] = [status |-> c[2].status, content |-> c[2].content]]
             /\ text' = [text EXCEPT ![p] = c[2].text]
             /\ wrap' = [wrap EXCEPT ![p] = c[2].wrap]
        /\ ui' = [ui EXCEPT ![p] = <<>>]
        /\ pc' = [pc EXCEPT ![p] = "call"]
  /\ UNCHANGED <<history, session_state>>

NextSession == \E p \in Procs : CallApi(p) \/ ParseStep(p) \/ MainHandle(p) \/ Press(p)

SpecSession == InitSession /\ [][NextSession]_vars

(***************************************************************************)
(* The operation run alone, as one function of the upstream result r       *)
(* (lines 192-225, 275-308): the value it returns.                         *)
(***************************************************************************)
Extract(o, r) ==
  IF ~EntersParseBlock(r) THEN PyNone
  ELSE IF r.kind # "str" THEN PyNone
  ELSE LET d == JsonLoads(BraceSlice(o, FenceStrip(o, r.atom)))
       IN  IF d.ok THEN d.val ELSE PyNone

\* What the operation run alone shows on the page after the upstream call
\* (lines 216-224, 299-307).
ExtractShown(o, r) ==
  IF ~EntersParseBlock(r) THEN <<>>
  ELSE IF r.kind # "str" THEN OtherErrorShown(o)
  ELSE IF JsonLoads(BraceSlice(o, FenceStrip(o, r.atom))).ok THEN <<>>
  ELSE DecodeErrorShown(o, r.atom)

(***************************************************************************)
(* Properties.                                                             *)
(***************************************************************************)
Returned(p) == pc[p] \in {"returned", "done", "main_raised"}

\* The completion the upstream model produced for invocation p.
Raw(p) == Wrapped(wrap[p], text[p])

GotCompletion(p) == api_key[p] /\ reply[p].status = "ok" /\ reply[p].content = PyStr(Raw(p))

IsObjectText(t) == JsonLoads(t).ok /\ JsonLoads(t).val.kind = "dict"

NoBrace(t) == ~Contains(t, "{") /\ ~Contains(t, "}")

Ellipsis == <<".", ".", ".">>

CodeShown(p) == {i \in DOMAIN ui[p] : ui[p][i].fn = "code"}

UpstreamFailed(p) == ~api_key[p] \/ reply[p].status # "ok" \/ reply[p].content = PyNone

\* C1: when the raw completion is the text of a valid JSON object, the
\* operation returns exactly what json.loads gives for that text, and no
\* exception was raised on the way.
C1_ValidObjectDecodes ==
  \A p \in Procs :
    (Returned(p) /\ GotCompletion(p) /\ IsObjectText(Raw(p)))
      => (exc[p] = "none" /\ outcome[p] = JsonLoads(Raw(p)).val)

\* A valid object text with a brace inside a string has been decoded.
C1_Witness ==
  \E p \in Procs :
    /\ pc[p] = "done"
    /\ GotCompletion(p)
    /\ Raw(p) = Braces(Member(KeyA, Q(<<"x", "}", "{">>)))
    /\ outcome[p] = PyDict(<< <<KeyA, PyStr(<<"x", "}", "{">>)>> >>)

\* C2: whenever json.loads succeeded (line 215 / 298 returned), the value
\* returned is a dict.
C2_SuccessIsObject ==
  \A p \in Procs :
    (Returned(p) /\ "decode" \in ran[p] /\ exc[p] = "none") => outcome[p].kind = "dict"

\* C3: a text inside a ```json or a bare ``` fence gives the outcome the
\* text gives alone.
C3_FenceWrapTransparent ==
  \A p \in Procs :
    (Returned(p) /\ GotCompletion(p) /\ wrap[p] \in {JsonFenceWrap, BareFenceWrap})
      => outcome[p] = Extract(op[p], PyStr(text[p]))

\* What does hold of fence wrapping: it is transparent whenever the text
\* alone gives a dict or a failure.
FenceWrapTransparentForObjects ==
  \A p \in Procs :
    (/\ Returned(p)
     /\ GotCompletion(p)
     /\ wrap[p] \in {JsonFenceWrap, BareFenceWrap}
     /\ Extract(op[p], PyStr(text[p])).kind \in {"dict", "NoneType"})
      => outcome[p] = Extract(op[p], PyStr(text[p]))

\* C4: a valid JSON object text between two brace-free pieces of prose
\* gives the outcome the object text gives alone.
C4_ProseTransparent ==
  \A p \in Procs :
    (/\ Returned(p)
     /\ GotCompletion(p)
     /\ IsObjectText(text[p])
     /\ NoBrace(wrap[p].pre)
     /\ NoBrace(wrap[p].post))
      => outcome[p] = Extract(op[p], PyStr(text[p]))

\* An object between prose that holds the word json, backticks and
\* whitespace has been decoded.
C4_Witness ==
  \E p \in Procs :
    /\ pc[p] = "done"
    /\ GotCompletion(p)
    /\ text[p] = NestedObject
    /\ wrap[p] = WrapOf(<<"j", "s", "o", "n", SP>>, <<NL>> \o Fence \o <<NL>> \o Fence)
    /\ outcome[p].kind = "dict"
    /\ outcome[p].members # {}

\* C5: a text json.loads rejects raises JSONDecodeError; then the operation
\* returns None and the one snippet shown is the raw completion itself when
\* it has at most 500 characters, and its first 500 characters followed by
\* "..." when it has more.
C5_SnippetOfRaw ==
  \A p \in Procs :
    /\ (Returned(p) /\ "decode" \in ran[p] /\ ~JsonLoads(cleaned_response[p]).ok)
         => exc[p] = "JSONDecodeError"
    /\ (Returned(p) /\ exc[p] = "JSONDecodeError")
         => /\ outcome[p] = PyNone
            /\ GotCompletion(p)
            /\ Cardinality(CodeShown(p)) = 1
            /\ \A i \in CodeShown(p) :
                 ui[p][i].body = IF Len(Raw(p)) <= 500 THEN Raw(p)
                                 ELSE SubSeq(Raw(p), 1, 500) \o Ellipsis

\* A decode failure on a completion of more than 500 characters that the
\* cleaning has changed.
C5_Witness ==
  \E p \in Procs :
    /\ pc[p] = "done"
    /\ exc[p] = "JSONDecodeError"
    /\ Len(Raw(p)) > 500
    /\ cleaned_response[p] # Raw(p)
    /\ Len(cleaned_response[p]) > 0

\* C6: no exception leaves the operation: none ends raised, an exception
\* raised in the block (a decode error or any other) is taken by an except
\* clause, and the invocation in which one was raised has returned None.
C6_NeverRaises ==
  \A p \in Procs :
    /\ pc[p] # "raised"
    /\ pc[p] = "except" => (exc[p] # "none" /\ Handler(exc[p]) # "propagate")
    /\ (Returned(p) /\ exc[p] # "none") => outcome[p] = PyNone

\* An exception other than a decode error was raised and None returned.
C6_Witness ==
  \E p \in Procs :
    /\ pc[p] = "done"
    /\ exc[p] = "AttributeError"
    /\ outcome[p] = PyNone
    /\ Len(ui[p]) = 1

\* C7 as stated: the empty completion is run through the parsing block and
\* reported as a parse failure.
C7_EmptyIsParsed ==
  \A p \in Procs :
    (Returned(p) /\ GotCompletion(p) /\ Raw(p) = <<>>)
      => (outcome[p] = PyNone /\ "decode" \in ran[p] /\ ui[p] # <<>>)

\* C7 as amended: the empty completion gives None, and the guard before the
\* parsing block skips the block: no statement of it runs, no exception is
\* raised and nothing is shown.
C7_EmptyReturnsNoneUnparsed ==
  \A p \in Procs :
    (Returned(p) /\ GotCompletion(p) /\ Raw(p) = <<>>)
      => (outcome[p] = PyNone /\ ran[p] = {} /\ exc[p] = "none" /\ ui[p] = <<>>)

\* The operation has returned on the empty completion.
C7_Witness ==
  \E p \in Procs :
    /\ pc[p] = "done"
    /\ GotCompletion(p)
    /\ Raw(p) = <<>>
    /\ response[p] = PyStr(<<>>)

\* C8 as stated: after the fence-stripping normalisation (at the brace
\* search), applying the normalisation again changes nothing.
C8_FenceStripIdempotent ==
  \A p \in Procs :
    pc[p] = "slice" => FenceStrip(op[p], cleaned_response[p]) = cleaned_response[p]

\* C8 as amended: applying the normalisation again changes nothing when the
\* normalised text no longer starts or ends with a fence marker.
C8_IdempotentOnceFencesGone ==
  \A p \in Procs :
    (/\ pc[p] = "slice"
     /\ ~StartsWith(cleaned_response[p], Fence)
     /\ ~EndsWith(cleaned_response[p], Fence))
      => FenceStrip(op[p], cleaned_response[p]) = cleaned_response[p]

\* A fenced completion has been normalised to a text without fences.
C8_Witness ==
  \E p \in Procs :
    /\ pc[p] = "slice"
    /\ wrap[p] = JsonFenceWrap
    /\ text[p] = Wrapped(BareFenceWrap, SmallObject)
    /\ cleaned_response[p] = SmallObject

\* C9: when the upstream call gave no completion (no API key, a request
\* error, another response shape, a null content), no statement of the
\* parsing block runs, nothing but the upstream call's own message is shown,
\* and the operation returns None.
C9_NoParseWithoutCompletion ==
  \A p \in Procs :
    (pc[p] \notin {"off", "call"} /\ UpstreamFailed(p))
      => /\ pc[p] \in {"check", "returned", "done"}
         /\ ran[p] = {}
         /\ exc[p] = "none"
         /\ outcome[p] = PyNone
         /\ ui[p] = ApiShown(api_key[p], reply[p])

\* The operation has returned after a request error.
C9_Witness ==
  \E p \in Procs :
    /\ pc[p] = "done"
    /\ api_key[p]
    /\ reply[p].status = "request_error"
    /\ Len(ui[p]) = 1

\* C10: with two invocations interleaved, each returns what the operation
\* returns when run alone on its own upstream result, two invocations of the
\* same operation on the same upstream result return the same, and the
\* session state is untouched until main() handles the returned value.
C10_InvocationsIndependent ==
  /\ \A p \in Procs :
       /\ Returned(p) => outcome[p] = Extract(op[p], ApiResult(api_key[p], reply[p]))
       /\ pc[p] \notin {"done", "main_raised"} => session_state[p] = EmptySession
  /\ \A p, q \in Procs :
       (Returned(p) /\ Returned(q) /\ op[p] = op[q] /\ api_key[p] = api_key[q] /\ reply[p] = reply[q])
         => outcome[p] = outcome[q]

\* Two invocations on different completions have both decoded and returned,
\* one a dict and one a failure.
C10_Witness ==
  /\ pc[1] = "done"
  /\ pc[2] = "done"
  /\ Raw(1) = Wrapped(JsonFenceWrap, SmallObject)
  /\ Raw(2) = <<"{", Quote>>
  /\ outcome[1].kind = "dict"
  /\ exc[2] = "JSONDecodeError"

\* The fences a completion is wrapped in, and bodies without a fence or
\* outer whitespace of their own.
FenceWraps == {JsonFenceWrap, BareFenceWrap}

FencedBodies == {SmallObject, <<"1">>, Brackets(<<"1">>), <<"x">>}

\* The completion of invocation p is body t inside fence inner inside fence
\* outer.
DoubleFenced(p, outer, inner, t) ==
  GotCompletion(p) /\ wrap[p] = outer /\ text[p] = Wrapped(inner, t)

\* What the two passes leave in front of the body of a doubly fenced text.
FenceResidue(outer, inner) ==
  CASE outer = JsonFenceWrap /\ inner = BareFenceWrap -> <<>>
    [] outer = JsonFenceWrap /\ inner = JsonFenceWrap -> <<"j", "s", "o", "n", NL>>
    [] outer = BareFenceWrap /\ inner = JsonFenceWrap -> FenceJson \o <<NL>>
    [] outer = BareFenceWrap /\ inner = BareFenceWrap -> Fence \o <<NL>>

\* C11 as stated: a text wrapped in two layers of fences, with any
\* combination of openers, reaches the brace search with both layers removed.
C11_BothLayersRemoved ==
  \A p \in Procs : \A outer \in FenceWraps, inner \in FenceWraps, t \in FencedBodies :
    (pc[p] = "slice" /\ DoubleFenced(p, outer, inner, t)) => cleaned_response[p] = t

\* C11 as amended: the first pass strips only an opening fence with the json
\* tag and the second only a bare opening fence, so one layer of either kind
\* is removed, and of two layers both are removed only for a json fence
\* around a bare fence; the other combinations reach the brace search with
\* the rest of the inner opening marker still in front of the body.
C11_LayersRemovedByOpener ==
  \A p \in Procs : \A outer \in FenceWraps, t \in FencedBodies :
    pc[p] = "slice" =>
      /\ (GotCompletion(p) /\ wrap[p] = outer /\ text[p] = t) => cleaned_response[p] = t
      /\ \A inner \in FenceWraps :
           DoubleFenced(p, outer, inner, t)
             => cleaned_response[p] = FenceResidue(outer, inner) \o t

\* A json fence inside a bare fence has gone through both passes and its
\* opening marker is still there.
C11_Witness ==
  \E p \in Procs :
    /\ pc[p] = "slice"
    /\ DoubleFenced(p, BareFenceWrap, JsonFenceWrap, SmallObject)
    /\ cleaned_response[p] = FenceJson \o <<NL>> \o SmallObject

\* The positions (from 1) of the first opening and the last closing brace.
FirstOpen(c) == SetMin({i \in 1..Len(c) : c[i] = "{"})

LastClose(c) == SetMax({i \in 1..Len(c) : c[i] = "}"})

HasBoth(c) == (\E i \in 1..Len(c) : c[i] = "{") /\ (\E i \in 1..Len(c) : c[i] = "}")

\* The fence-stripped text of invocation p, from its raw response.
FenceStripped(p) == FenceStrip(op[p], response[p].atom)

\* C12 as stated: json.loads is handed the span of the fence-stripped text
\* from its first opening brace to its last closing brace, both included,
\* wherever the two are, and the fence-stripped text itself when one of the
\* two braces is missing.
C12_DecoderGetsBraceSpan ==
  \A p \in Procs :
    pc[p] = "decode" =>
      LET c == FenceStripped(p)
          d == cleaned_response[p]
      IN  IF HasBoth(c)
          THEN /\ Len(d) >= 2
               /\ d[1] = "{"
               /\ d[Len(d)] = "}"
               /\ d = SubSeq(c, FirstOpen(c), LastClose(c))
          ELSE d = c

\* C12 as amended: the span from the first opening brace to the last closing
\* brace when the last closing brace comes after the first opening brace;
\* the empty text when both braces are there and every closing brace comes
\* before the first opening brace; the fence-stripped text itself when one
\* of the two braces is missing.
C12_DecoderInput ==
  \A p \in Procs :
    pc[p] = "decode" =>
      LET c == FenceStripped(p)
          d == cleaned_response[p]
      IN  CASE HasBoth(c) /\ FirstOpen(c) < LastClose(c) ->
                 /\ d = SubSeq(c, FirstOpen(c), LastClose(c))
                 /\ d[1] = "{"
                 /\ d[Len(d)] = "}"
            [] HasBoth(c) /\ LastClose(c) < FirstOpen(c) -> d = <<>>
            [] OTHER -> d = c

\* A completion whose only closing brace comes before its only opening brace
\* is about to be decoded as the empty text.
C12_Witness ==
  \E p \in Procs :
    /\ pc[p] = "decode"
    /\ GotCompletion(p)
    /\ FenceStripped(p) = <<"}", SP, "{">>
    /\ cleaned_response[p] = <<>>

\* C13: an execution of either operation makes at most one upstream
\* completion call and at most one json.loads attempt: once it has returned
\* it has made exactly one call, a Failure among them, and an execution in
\* which an exception was raised has decoded at most once and calls no more.
C13_NoRetry ==
  \A p \in Procs :
    /\ calls[p] <= 1
    /\ decodes[p] <= 1
    /\ Returned(p) => calls[p] = 1
    /\ (Returned(p) /\ exc[p] = "JSONDecodeError") => (decodes[p] = 1 /\ outcome[p] = PyNone)
    /\ decodes[p] = (IF "decode" \in ran[p] THEN 1 ELSE 0)

\* An operation has returned a Failure after its one call and its one decode
\* attempt on a truncated object.
C13_Witness ==
  \E p \in Procs :
    /\ pc[p] = "done"
    /\ GotCompletion(p)
    /\ Raw(p) = SubSeq(NestedObject, 1, Len(NestedObject) - 2)
    /\ exc[p] = "JSONDecodeError"
    /\ outcome[p] = PyNone
    /\ calls[p] = 1
    /\ decodes[p] = 1

\* The other copy of the parsing block.
OtherCopy(o) == IF o = "generate" THEN "validate" ELSE "generate"

\* C14: on every upstream result, the copy of the parsing block that ran
\* returned what the other copy returns on it, and showed what the other
\* copy shows, entry by entry, with the same snippet; two entries differ at
\* most in the message of an st.error.
C14_CopiesEquivalent ==
  \A p \in Procs :
    Returned(p) =>
      LET r == ApiResult(api_key[p], reply[p])
          mine == ui[p]
          theirs == ApiShown(api_key[p], reply[p]) \o ExtractShown(OtherCopy(op[p]), r)
      IN  /\ outcome[p] = Extract(OtherCopy(op[p]), r)
          /\ Len(mine) = Len(theirs)
          /\ \A i \in 1..Len(mine) :
               /\ mine[i].fn = theirs[i].fn
               /\ mine[i].body = theirs[i].body
               /\ mine[i].msg # theirs[i].msg => mine[i].fn = "error"

\* validate_startup_idea has failed to decode a fenced non-JSON text and
\* shown its snippet; the other copy's messages differ in their wording.
C14_Witness ==
  \E p \in Procs :
    /\ pc[p] = "done"
    /\ op[p] = "validate"
    /\ GotCompletion(p)
    /\ Raw(p) = Wrapped(JsonFenceWrap, <<"x">>)
    /\ outcome[p] = PyNone
    /\ CodeShown(p) # {}
    /\ ui[p] # ExtractShown("generate", response[p])

\* An operation's value that main() stores: a non-empty mapping with the
\* key ideas from generate_startup_ideas, any truthy value from
\* validate_startup_idea.
StoresIdeas(h) ==
  /\ h.op = "generate"
  /\ h.value.kind = "dict"
  /\ \E m \in h.value.members : m[1] = KeyIdeas

StoresValidation(h) == h.op = "validate" /\ Truthy(h.value)

\* The operations of the session main() has dealt with.
Handled(p) ==
  IF pc[p] = "returned" THEN SubSeq(history[p], 1, Len(history[p]) - 1) ELSE history[p]

\* What the session holds after the operations hs: for each key the value
\* of the last operation that stores one, and no key when there is none.
SessionAfter(hs) ==
  LET gen == {i \in 1..Len(hs) : StoresIdeas(hs[i])}
      val == {i \in 1..Len(hs) : StoresValidation(hs[i])}
  IN  [generated_ideas |->
         IF gen = {} THEN Absent
         ELSE (CHOOSE m \in hs[SetMax(gen)].value.members : m[1] = KeyIdeas)[2],
       validation_results |->
         IF val = {} THEN Absent ELSE hs[SetMax(val)].value]

\* C15: after any sequence of generate and validate actions, each key of the
\* session state holds the value of the most recent action of its kind that
\* returned a value to store (a non-empty mapping with the key ideas, a
\* truthy validation value), and is absent when there was none; an action
\* that returned None leaves both keys as they were; and when the display
\* of a stored value raised, the value had been stored before.
C15_SessionHoldsLastSuccess ==
  \A p \in Procs :
    /\ session_state[p] = SessionAfter(Handled(p))
    /\ (pc[p] \notin {"off", "returned"} /\ history[p] # <<>>
          /\ history[p][Len(history[p])].value = PyNone)
         => session_state[p] = SessionAfter(SubSeq(history[p], 1, Len(history[p]) - 1))
    /\ (pc[p] = "main_raised" /\ op[p] = "validate" /\ Truthy(outcome[p]))
         => session_state[p].validation_results = outcome[p]
    /\ (pc[p] = "main_raised" /\ op[p] = "generate" /\ HasField(outcome[p], KeyIdeas))
         => session_state[p].generated_ideas = Lookup(outcome[p], KeyIdeas)

\* Ideas were generated and stored, a validation value was stored though its
\* display raised, and a later validation that failed left both keys as
\* they were.
C15_Witness ==
  \E p \in Procs :
    /\ pc[p] = "done"
    /\ Len(history[p]) = 3
    /\ history[p][1].op = "generate"
    /\ history[p][2] = [op |-> "validate", value |-> JsonLoads(SmallObject).val]
    /\ history[p][3] = [op |-> "validate", value |-> PyNone]
    /\ session_state[p].generated_ideas = Lookup(JsonLoads(IdeasReport).val, KeyIdeas)
    /\ session_state[p].validation_results = JsonLoads(SmallObject).val

=============================================================================
